---- MODULE Spec2Model ----
(***************************************************************************)
(* A model of psearch (personal_search): the indexing pipeline             *)
(* (NotesIndexer, indexer.py) that fills the on-disk vector store, and the *)
(* search and re-rank engine (NotesSearchEngine, search.py) that queries   *)
(* it.                                                                     *)
(*                                                                         *)
(* Representation.                                                         *)
(*  - A path is a record [dirs, stem, suffix]: dirs is the sequence of the *)
(*    names of its ancestor directories (outermost first) below the file   *)
(*    system root, stem and suffix are the two parts of the file name.     *)
(*  - Distances and scores are fixed-point numbers in thousandths          *)
(*    (0.5 is 500).  The distances of the model are multiples of 10, so    *)
(*    the blend 0.7 * llm_distance + 0.3 * distance is an exact integer.   *)
(*  - A scorer response is a sequence of one-character strings.            *)
(***************************************************************************)
EXTENDS Integers, Sequences, FiniteSets, TLC

(***************************************************************************)
(* Bounds of the model.                                                    *)
(***************************************************************************)
MaxStore == 4        \* entries the store may hold (guards the index run)
MaxTopK == 2         \* largest top_k a caller passes to search
MaxRespLen == 3      \* longest scorer response of the rating specification
MaxPoolTopK == 30    \* largest top_k of the candidate pool specification

(***************************************************************************)
(* Program constants.                                                      *)
(***************************************************************************)
DefaultTopK == 5       \* settings.top_k
ChunkSize == 1000      \* settings.chunk_size
ChunkOverlap == 200    \* settings.chunk_overlap
MaxInitialK == 20      \* the cap of the over-fetch in search
None == 0 - 1          \* Python's None as the value of an Optional[int]

Min(a, b) == IF a < b THEN a ELSE b
Max(a, b) == IF a > b THEN a ELSE b

(***************************************************************************)
(* The notes directory: the files that may exist under it.                 *)
(***************************************************************************)
FileA == [dirs |-> <<"notes">>, stem |-> "a", suffix |-> ".md"]
FileB == [dirs |-> <<"notes", "sub">>, stem |-> "b", suffix |-> ".txt"]
FileG == [dirs |-> <<"notes", ".git">>, stem |-> "config", suffix |-> ""]
Paths == {FileA, FileB, FileG}

\* Files below an excluded directory that is not their immediate parent: one
\* of an allow-listed extension, one without extension.
FileN == [dirs |-> <<"notes", "node_modules", "pkg">>, stem |-> "x", suffix |-> ".js"]
FileV == [dirs |-> <<"notes", "venv", "lib">>, stem |-> "README", suffix |-> ""]
IndexPaths == Paths \cup {FileN, FileV}

\* Number of characters of each file's decoded content.
ContentLen(p) == IF p = FileB THEN 1500 ELSE 11

Name(p) == p.stem \o p.suffix
ParentName(p) == p.dirs[Len(p.dirs)]

extensions == <<".txt", ".md", ".py", ".js", ".json", ".yaml", ".yml", ".sh", ".sql">>
skip_dirs == {".git", ".github", "__pycache__", "node_modules", ".venv", "venv", "env"}

\* '/.git/' in str(path) or '/.github/' in str(path): some directory of the
\* path is named .git or .github.
InGitDir(p) == \E i \in 1..Len(p.dirs) : p.dirs[i] \in {".git", ".github"}

ShouldSkipParentOnly(p) ==
    \/ ParentName(p) \in skip_dirs
    \/ InGitDir(p)

_should_skip_path(p) ==
    \/ \E i \in 1..Len(p.dirs) : p.dirs[i] \in skip_dirs
    \/ ParentName(p) \in skip_dirs
    \/ InGitDir(p)

\* The files of the model hold text: the sniff of an extensionless file passes.
_is_text_file(p) == TRUE

\* The files of one extension, in the one order the model's rglob yields.
RECURSIVE SetToSeq(_)
SetToSeq(S) ==
    IF S = {} THEN <<>>
    ELSE LET x == CHOOSE y \in S : TRUE IN <<x>> \o SetToSeq(S \ {x})

RECURSIVE FilesByExt(_, _)
FilesByExt(present, i) ==
    IF i > Len(extensions) THEN <<>>
    ELSE SetToSeq({p \in present : p.suffix = extensions[i] /\ ~_should_skip_path(p)})
            \o FilesByExt(present, i + 1)

\* The enumeration of _load_documents: the allow-listed extensions in the
\* order of the list, then the extensionless text files.
EligibleFiles(present) ==
    FilesByExt(present, 1)
        \o SetToSeq({p \in present : p.suffix = "" /\ ~_should_skip_path(p)
                                        /\ _is_text_file(p)})

LoadAbortingOnFailure(exists, present, bad) ==
    LET eligible == EligibleFiles(present)
    IN  IF ~exists \/ \E i \in 1..Len(eligible) : eligible[i] \in bad THEN <<>>
        ELSE eligible

\* _load_documents: one Document per eligible file whose load succeeds;
\* bad is the set of files whose load raises.
_load_documents(exists, present, bad) ==
    IF ~exists THEN <<>>
    ELSE LET ok(p) == p \notin bad IN SelectSeq(EligibleFiles(present), ok)

\* "Filename: <name>\nPath: <parent>/<name>\n\n"
HeaderLen(p) == 10 + Len(Name(p)) + 1 + 6 + Len(ParentName(p)) + 1 + Len(Name(p)) + 2

\* The number of chunks the splitter makes of a text of n characters.
SplitCount(n) ==
    IF n <= ChunkSize THEN 1
    ELSE LET step == ChunkSize - ChunkOverlap
         IN  ((n - ChunkOverlap) + step - 1) \div step

ChunksOf(p) ==
    [i \in 1..SplitCount(HeaderLen(p) + ContentLen(p)) |-> [source |-> p, chunk |-> i]]

\* text_splitter.split_documents: the chunks of every document, in order.
RECURSIVE split_documents(_)
split_documents(docs) ==
    IF docs = <<>> THEN <<>>
    ELSE ChunksOf(Head(docs)) \o split_documents(Tail(docs))

(***************************************************************************)
(* The vector store and its query.                                         *)
(***************************************************************************)
\* The queries of the model.  The embedding is deterministic: a query fixes
\* the distance of every chunk.
Queries == {"q1", "q2", "q3"}

Dist(q, e) ==
    CASE q = "q1" -> (IF e.source = FileB /\ e.chunk = 2 THEN 200 ELSE 500)
      [] q = "q2" -> (IF e.source = FileA THEN 200
                      ELSE IF e.chunk = 1 THEN 800 ELSE 500)
      [] OTHER    -> 500

Reverse(s) == [i \in 1..Len(s) |-> s[Len(s) + 1 - i]]

\* x put into the sequence s, ascending by score, behind every element whose
\* score is not greater than its own.
RECURSIVE InsertByScore(_, _)
InsertByScore(x, s) ==
    IF s = <<>> THEN <<x>>
    ELSE IF x.score < Head(s).score THEN <<x>> \o s
    ELSE <<Head(s)>> \o InsertByScore(x, Tail(s))

RECURSIVE SortDescending(_)
SortDescending(s) ==
    IF s = <<>> THEN <<>>
    ELSE LET i == CHOOSE j \in 1..Len(s) : \A k \in 1..Len(s) : s[k].score <= s[j].score
         IN  <<s[i]>> \o SortDescending(SubSeq(s, 1, i - 1) \o SubSeq(s, i + 1, Len(s)))

\* list.sort(key=lambda x: x.score): a stable ascending sort by score.
RECURSIVE SortByScore(_)
SortByScore(s) ==
    IF s = <<>> THEN <<>>
    ELSE InsertByScore(s[Len(s)], SortByScore(SubSeq(s, 1, Len(s) - 1)))

\* s[:n] for n >= 0
Take(s, n) == SubSeq(s, 1, Min(Max(n, 0), Len(s)))

\* The entries of s nearest first; entries at the same distance keep the
\* order they have in s.
RECURSIVE NearestFirst(_)
NearestFirst(s) ==
    IF s = <<>> THEN <<>>
    ELSE LET i == CHOOSE j \in 1..Len(s) :
                    /\ \A k \in 1..Len(s) : s[j].score <= s[k].score
                    /\ \A k \in 1..(j - 1) : s[j].score < s[k].score
         IN  <<s[i]>> \o NearestFirst(SubSeq(s, 1, i - 1) \o SubSeq(s, i + 1, Len(s)))

\* vectorstore.similarity_search_with_score(query, k): the k entries nearest
\* to the query with their distances, ascending by distance.  The store
\* leaves the order of entries at the same distance open: tieRev picks
\* between the order of insertion and its reverse.
similarity_search_with_score(entries, q, k, tieRev) ==
    LET base == IF tieRev THEN Reverse(entries) ELSE entries
        scored == [i \in 1..Len(base) |-> [doc |-> base[i], score |-> Dist(q, base[i])]]
    IN  Take(NearestFirst(scored), k)

(***************************************************************************)
(* NotesSearchEngine._score_with_llm                                       *)
(***************************************************************************)
Digits == {"0", "1", "2", "3", "4", "5", "6", "7", "8", "9"}

DigitValue(c) ==
    CASE c = "0" -> 0 [] c = "1" -> 1 [] c = "2" -> 2 [] c = "3" -> 3
      [] c = "4" -> 4 [] c = "5" -> 5 [] c = "6" -> 6 [] c = "7" -> 7
      [] c = "8" -> 8 [] c = "9" -> 9

\* re.findall(r'\d+', text)[0]: the first maximal run of digits of the
\* text, <<>> when the text holds no digit.
RECURSIVE DigitRun(_)
DigitRun(text) ==
    IF text = <<>> \/ Head(text) \notin Digits THEN <<>>
    ELSE <<Head(text)>> \o DigitRun(Tail(text))

RECURSIVE FirstNumber(_)
FirstNumber(text) ==
    IF text = <<>> THEN <<>>
    ELSE IF Head(text) \in Digits THEN DigitRun(text)
    ELSE FirstNumber(Tail(text))

\* int(digits)
RECURSIVE IntOf(_)
IntOf(digits) ==
    IF digits = <<>> THEN 0
    ELSE 10 * IntOf(SubSeq(digits, 1, Len(digits) - 1)) + DigitValue(digits[Len(digits)])

ClampNoFloor(n) == Min(10, n)

\* max(1, min(10, llm_score))
Clamp(n) == Max(1, Min(10, n))

\* The rating read from the scorer's response.
LlmScore(text) ==
    LET numbers == FirstNumber(text)
    IN  IF numbers # <<>> THEN Clamp(IntOf(numbers)) ELSE 5

CombinedWrongWeights(llm_score, score) == 30 * (11 - llm_score) + (7 * score) \div 10

\* (llm_distance * 0.7) + (result.score * 0.3), llm_distance = (11 - llm_score) / 10.0
Combined(llm_score, score) == 70 * (11 - llm_score) + (3 * score) \div 10

\* The scorer's answer about one candidate: a response text, or a failure.
ScorerFails == <<"!">>

ScoreWithLlmNoFallback(score, llm_available, response) ==
    IF ~llm_available THEN score
    ELSE Combined(LlmScore(response), score)

\* _score_with_llm(result, query): the new score of a result whose score is
\* its vector distance.
_score_with_llm(score, llm_available, response) ==
    IF ~llm_available THEN score
    ELSE IF response = ScorerFails THEN score
    ELSE Combined(LlmScore(response), score)

(***************************************************************************)
(* NotesSearchEngine.search                                                *)
(***************************************************************************)
\* top_k = top_k or settings.top_k
ResolveTopK(top_k) == IF top_k = None \/ top_k = 0 THEN DefaultTopK ELSE top_k

\* initial_k = min(top_k * 2, 20) if self.llm_available else top_k
InitialK(top_k, llm_available) ==
    IF llm_available THEN Min(top_k * 2, MaxInitialK) ELSE top_k

RECURSIVE KeepAll(_, _)
KeepAll(cands, seen_files) ==
    IF cands = <<>> THEN <<>>
    ELSE IF InGitDir(Head(cands).doc.source) THEN KeepAll(Tail(cands), seen_files)
    ELSE <<Head(cands)>> \o KeepAll(Tail(cands), seen_files)

\* The loop over results_with_scores: candidates under a Git directory are
\* skipped, and of the others the first of each source path is kept.
RECURSIVE Dedup(_, _)
Dedup(cands, seen_files) ==
    IF cands = <<>> THEN <<>>
    ELSE LET file_path == Head(cands).doc.source
         IN  IF InGitDir(file_path) THEN Dedup(Tail(cands), seen_files)
             ELSE IF file_path \notin seen_files
                  THEN <<Head(cands)>> \o Dedup(Tail(cands), seen_files \cup {file_path})
             ELSE Dedup(Tail(cands), seen_files)

\* The sources of the results: the candidates the scorer is asked about.
Sources(results) == {results[i].doc.source : i \in 1..Len(results)}

\* The scoring loop: with a scorer and at least one result, every result's
\* score becomes what _score_with_llm returns for it; responses maps each
\* source to the scorer's answer about it.
Rescore(results, llm_available, responses) ==
    IF llm_available /\ results # <<>>
    THEN [i \in 1..Len(results) |->
            [results[i] EXCEPT !.score =
                _score_with_llm(@, llm_available, responses[results[i].doc.source])]]
    ELSE results

\* What the Vector Index returns to one search call.
Retrieved(entries, q, top_k, llm_available, tieRev) ==
    similarity_search_with_score(entries, q,
        InitialK(ResolveTopK(top_k), llm_available), tieRev)

SearchBodyIgnoringError(entries, q, top_k, llm_available, tieRev, responses, queryOk) ==
    Take(SortByScore(Rescore(Dedup(Retrieved(entries, q, top_k, llm_available, tieRev), {}),
                             llm_available, responses)),
         ResolveTopK(top_k))

\* The try block of search and its except clause: the value search returns
\* when the engine holds a vector store.  queryOk is false when the query
\* of the Vector Index raises.
SearchBody(entries, q, top_k, llm_available, tieRev, responses, queryOk) ==
    IF ~queryOk THEN <<>>
    ELSE Take(SortByScore(Rescore(Dedup(Retrieved(entries, q, top_k, llm_available, tieRev), {}),
                                  llm_available, responses)),
              ResolveTopK(top_k))

(***************************************************************************)
(* The state.  The commands run one at a time, each in a process of its    *)
(* own: an indexing run, a clearing of the index, or a search session that *)
(* constructs its engine, searches once and ends.                          *)
(***************************************************************************)
VARIABLES
    notes_exists,   \* the notes directory exists
    files,          \* the files under the notes directory
    index_dir,      \* the index directory: "absent", "empty" or "nonempty"
    store,          \* the entries of the vector store, in order of insertion
    search,         \* the search session at its end: its inputs and its outcome
    ret,            \* the list the search call of the session returned
    run,            \* the last indexing run: its inputs and its outcome
    returned,       \* what search has returned so far when no index was
                    \* present and when the query failed
    scoring,        \* one call of the scorer: its response and the rating
                    \* read from it
    pool            \* one retrieval: top_k, the scorer's availability and the
                    \* number of candidates requested of the Vector Index

vars == <<notes_exists, files, index_dir, store, search, ret, run, returned, scoring, pool>>

NoSearch == [outcome |-> "none", query |-> "", top_k |-> None, vectorstore |-> FALSE,
             llm_available |-> FALSE, candidates |-> <<>>, responses |-> <<>>, console |-> ""]
NoRun == [outcome |-> "none", force_reindex |-> FALSE, had_entries |-> FALSE,
          missing |-> FALSE, chunks |-> <<>>, count |-> 0]

NoScoring == [response |-> <<>>, llm_score |-> None]

NoPool == [top_k |-> None, llm_available |-> FALSE, initial_k |-> None]

Init ==
    /\ notes_exists = FALSE
    /\ files = {}
    /\ index_dir = "absent"
    /\ store = <<>>
    /\ search = NoSearch
    /\ ret = <<>>
    /\ run = NoRun
    /\ returned = {}
    /\ scoring = NoScoring
    /\ pool = NoPool

\* No search session is under way.
Idle == search.outcome = "none"

(***************************************************************************)
(* The notes directory changes under the user's hands.                     *)
(***************************************************************************)
CreateNotesDir ==
    /\ Idle
    /\ ~notes_exists
    /\ notes_exists' = TRUE
    /\ UNCHANGED <<files, index_dir, store, search, ret, run, returned, scoring, pool>>

WriteFile(p) ==
    /\ Idle
    /\ notes_exists
    /\ p \notin files
    /\ files' = files \cup {p}
    /\ UNCHANGED <<notes_exists, index_dir, store, search, ret, run, returned, scoring, pool>>

RemoveFile(p) ==
    /\ Idle
    /\ p \in files
    /\ files' = files \ {p}
    /\ UNCHANGED <<notes_exists, index_dir, store, search, ret, run, returned, scoring, pool>>

\* The notes directory is removed with all it holds.
RemoveNotesDir ==
    /\ Idle
    /\ notes_exists
    /\ notes_exists' = FALSE
    /\ files' = {}
    /\ UNCHANGED <<index_dir, store, search, ret, run, returned, scoring, pool>>

(***************************************************************************)
(* NotesIndexer.index                                                      *)
(***************************************************************************)
\* self.index_dir.mkdir(parents=True, exist_ok=True) of NotesIndexer.__init__
Mkdir(dir) == IF dir = "absent" THEN "empty" ELSE dir

KeptNever(entries, force_reindex) == <<>>

KeptAlways(entries, force_reindex) == entries

\* shutil.rmtree(self.index_dir) under force_reindex: the entries a run
\* leaves of those it finds.
Kept(entries, force_reindex) == IF force_reindex THEN <<>> ELSE entries

WrittenTwice(entries, chunks, embedOk) ==
    IF embedOk THEN (entries \o chunks) \o chunks ELSE entries

\* Chroma(...).add_documents(chunks) and Chroma.from_documents(chunks): the
\* chunks are embedded and appended to the entries of the directory; when
\* the embedding raises, nothing is written.
Written(entries, chunks, embedOk) == IF embedOk THEN entries \o chunks ELSE entries

StoreAfterForceFirst(entries, documents, chunks, force_reindex, embedOk) ==
    Written(Kept(entries, force_reindex), chunks, embedOk /\ documents # <<>>)

StoreAfterRestoring(entries, documents, chunks, force_reindex, embedOk) ==
    IF documents # <<>> /\ embedOk THEN Kept(entries, force_reindex) \o chunks ELSE entries

\* The entries of the store after index: untouched when no document was
\* loaded (the return precedes the removal), otherwise what the removal under
\* force_reindex leaves, followed by what is written.
StoreAfter(entries, documents, chunks, force_reindex, embedOk) ==
    IF documents = <<>> THEN entries
    ELSE Written(Kept(entries, force_reindex), chunks, embedOk)

RunOutcomeFailsOnMissing(exists, documents, embedOk) ==
    IF ~exists THEN "failed"
    ELSE IF documents = <<>> THEN "zero"
    ELSE IF embedOk THEN "done" ELSE "failed"

\* How index ends: "zero" is the return of 0 when no document was loaded,
\* "done" the return of the number of chunks, "failed" the exception of the
\* embedding provider, which index does not catch.
RunOutcome(exists, documents, embedOk) ==
    IF documents = <<>> THEN "zero"
    ELSE IF embedOk THEN "done" ELSE "failed"

\* NotesIndexer(...).index(force_reindex).  bad: the files whose load raises;
\* embedOk: the embedding provider answers.
Index(force_reindex, bad, embedOk) ==
    LET documents == _load_documents(notes_exists, files, bad)
        chunks == split_documents(documents)
        outcome == RunOutcome(notes_exists, documents, embedOk)
    IN  /\ Idle
        /\ UNCHANGED <<notes_exists, files, search, ret, returned, scoring, pool>>
        /\ Len(StoreAfter(store, documents, chunks, force_reindex, TRUE)) <= MaxStore
        /\ store' = StoreAfter(store, documents, chunks, force_reindex, embedOk)
        /\ index_dir' = IF documents = <<>> THEN Mkdir(index_dir) ELSE "nonempty"
        /\ run' = [outcome |-> outcome,
                   force_reindex |-> force_reindex,
                   had_entries |-> store # <<>>,
                   missing |-> ~notes_exists,
                   chunks |-> chunks,
                   count |-> IF outcome = "done" THEN Len(chunks) ELSE 0]

\* psearch index over a notes directory that does not exist, the creation
\* declined: do_index prints the error and returns; no NotesIndexer is made.
IndexDeclined ==
    /\ Idle
    /\ ~notes_exists
    /\ run' = [NoRun EXCEPT !.outcome = "declined", !.missing = TRUE]
    /\ UNCHANGED <<notes_exists, files, index_dir, store, search, ret, returned, scoring, pool>>

\* psearch clear: shutil.rmtree(settings.index_directory)
Clear ==
    /\ Idle
    /\ index_dir # "absent"
    /\ index_dir' = "absent"
    /\ store' = <<>>
    /\ run' = NoRun
    /\ UNCHANGED <<notes_exists, files, search, ret, returned, scoring, pool>>

(***************************************************************************)
(* NotesSearchEngine                                                       *)
(***************************************************************************)
\* NotesIndexer.get_vectorstore: a handle when the index directory holds
\* anything, None otherwise.
get_vectorstore(dir) == dir = "nonempty"

NoIndexNever(vectorstore) == FALSE

\* if not self.vectorstore
NoIndex(vectorstore) == ~vectorstore

\* The scorer's answers of the model.
Responses == {<<"8">>, <<"2">>, <<"n", "o">>, ScorerFails}

TopKs == {None} \cup 0..MaxTopK

\* NotesSearchEngine().search(q, top_k).  llm: the scorer's model loads;
\* queryOk: the query of the Vector Index does not raise; track: the
\* session's return value is recorded in returned.
Search(q, top_k, llm, tieRev, queryOk, track) ==
    LET vectorstore == get_vectorstore(Mkdir(index_dir))
        candidates == Retrieved(store, q, top_k, llm, tieRev)
        asked == IF queryOk /\ llm THEN Sources(Dedup(candidates, {})) ELSE {}
    IN  /\ Idle
        /\ index_dir' = Mkdir(index_dir)
        /\ UNCHANGED <<notes_exists, files, store, run, scoring, pool>>
        /\ IF NoIndex(vectorstore)
           THEN /\ ret' = <<>>
                /\ search' = [NoSearch EXCEPT !.outcome = "no_index",
                                              !.vectorstore = vectorstore,
                                              !.console = "No index found"]
                /\ returned' = IF track THEN returned \cup {<<"no_index", ret'>>}
                               ELSE returned
           ELSE \E responses \in [asked -> Responses] :
                  /\ ret' = SearchBody(store, q, top_k, llm, tieRev, responses, queryOk)
                  /\ IF queryOk
                     THEN /\ search' = [outcome |-> "ok", query |-> q, top_k |-> top_k,
                                        vectorstore |-> vectorstore,
                                        llm_available |-> llm,
                                        candidates |-> candidates,
                                        responses |-> responses,
                                        console |-> IF asked # {} THEN "Analyzing" ELSE ""]
                          /\ returned' = returned
                     ELSE /\ search' = [NoSearch EXCEPT !.outcome = "query_error",
                                                        !.vectorstore = vectorstore,
                                                        !.console = "Search error"]
                          /\ returned' = IF track
                                         THEN returned \cup {<<"query_error", ret'>>}
                                         ELSE returned

\* The search session ends: its results are displayed and dropped.
EndSearch ==
    /\ ~Idle
    /\ search' = NoSearch
    /\ ret' = <<>>
    /\ UNCHANGED <<notes_exists, files, index_dir, store, run, returned, scoring, pool>>

Next ==
    \/ CreateNotesDir
    \/ \E p \in Paths : WriteFile(p)
    \/ \E p \in Paths : RemoveFile(p)
    \/ \E force_reindex \in BOOLEAN, bad \in SUBSET files, embedOk \in BOOLEAN :
          Index(force_reindex, bad, embedOk)
    \/ Clear
    \/ \E q \in Queries, top_k \in TopKs, llm \in BOOLEAN, tieRev \in BOOLEAN,
          queryOk \in BOOLEAN :
          Search(q, top_k, llm, tieRev, queryOk, FALSE)
    \/ EndSearch

Spec == Init /\ [][Next]_vars

(***************************************************************************)
(* The sessions in which what search returns without an index and after a  *)
(* failed query is recorded: no scorer, the default top_k.                 *)
(***************************************************************************)
NextOutcomes ==
    \/ CreateNotesDir
    \/ \E p \in {FileA, FileB} : WriteFile(p)
    \/ \E force_reindex \in BOOLEAN : Index(force_reindex, {}, TRUE)
    \/ Clear
    \/ \E q \in Queries, queryOk \in BOOLEAN : Search(q, None, FALSE, FALSE, queryOk, TRUE)
    \/ EndSearch

SpecOutcomes == Init /\ [][NextOutcomes]_vars

(***************************************************************************)
(* The rating read from one response of the scorer, for every response of  *)
(* up to MaxRespLen characters.                                            *)
(***************************************************************************)
Chars == {"0", "1", "7", "x", "-"}

Texts == UNION {[1..n -> Chars] : n \in 0..MaxRespLen}

InitRating ==
    /\ notes_exists = FALSE
    /\ files = {}
    /\ index_dir = "absent"
    /\ store = <<>>
    /\ search = NoSearch
    /\ ret = <<>>
    /\ run = NoRun
    /\ returned = {}
    /\ scoring \in [response : Texts, llm_score : {None}]
    /\ pool = NoPool

\* The rating is read from the response.
Rate ==
    /\ scoring.llm_score = None
    /\ scoring' = [scoring EXCEPT !.llm_score = LlmScore(scoring.response)]
    /\ UNCHANGED <<notes_exists, files, index_dir, store, search, ret, run, returned, pool>>

SpecRating == InitRating /\ [][Rate]_vars

(***************************************************************************)
(* The indexing runs over a notes directory that also holds files below    *)
(* excluded directories, and that may be removed; the loads that fail are  *)
(* those of files of Paths; the searches that follow the runs query        *)
(* without scorer and without error.                                       *)
(***************************************************************************)
NextIndex ==
    \/ CreateNotesDir
    \/ RemoveNotesDir
    \/ \E p \in IndexPaths : WriteFile(p)
    \/ \E p \in IndexPaths : RemoveFile(p)
    \/ \E force_reindex \in BOOLEAN, bad \in SUBSET (files \cap Paths), embedOk \in BOOLEAN :
          Index(force_reindex, bad, embedOk)
    \/ IndexDeclined
    \/ Clear
    \/ \E q \in Queries, top_k \in {None, 1} : Search(q, top_k, FALSE, FALSE, TRUE, FALSE)
    \/ EndSearch

SpecIndex == Init /\ [][NextIndex]_vars

(***************************************************************************)
(* The number of candidates one retrieval requests of the Vector Index,    *)
(* for every top_k from 1 to MaxPoolTopK.                                  *)
(***************************************************************************)
InitPool ==
    /\ notes_exists = FALSE
    /\ files = {}
    /\ index_dir = "absent"
    /\ store = <<>>
    /\ search = NoSearch
    /\ ret = <<>>
    /\ run = NoRun
    /\ returned = {}
    /\ scoring = NoScoring
    /\ pool \in [top_k : 1..MaxPoolTopK, llm_available : BOOLEAN, initial_k : {None}]

\* initial_k is computed from top_k.
Fetch ==
    /\ pool.initial_k = None
    /\ pool' = [pool EXCEPT !.initial_k = InitialK(ResolveTopK(pool.top_k), pool.llm_available)]
    /\ UNCHANGED <<notes_exists, files, index_dir, store, search, ret, run, returned, scoring>>

SpecPool == InitPool /\ [][Fetch]_vars

(***************************************************************************)
(* Properties.                                                             *)
(***************************************************************************)
\* The bound search applies to its result: the caller's top_k, the
\* configured default when it is None or 0.
Bound == IF search.top_k = None \/ search.top_k = 0 THEN DefaultTopK ELSE search.top_k

\* The positions of the candidates that survive the filter: outside a Git
\* directory and the first of their source path.
Firsts ==
    {i \in 1..Len(search.candidates) :
        /\ ~InGitDir(search.candidates[i].doc.source)
        /\ \A j \in 1..(i - 1) :
              search.candidates[j].doc.source # search.candidates[i].doc.source}

\* The n-th surviving candidate.
Survivor(n) ==
    search.candidates[CHOOSE i \in Firsts : Cardinality({j \in Firsts : j <= i}) = n]

Ascending == \A i \in 1..Len(ret), j \in 1..Len(ret) : i < j => ret[i].score <= ret[j].score

\* The scorer's answer about the i-th result, and the distance of that result.
ResponseOf(i) == search.responses[ret[i].doc.source]
DistanceOf(i) == Dist(search.query, ret[i].doc)
Scored(i) == search.llm_available /\ ResponseOf(i) # ScorerFails

\* C1: the list a search returns holds at most one result per source path.
C1_Dedup ==
    \A i \in 1..Len(ret), j \in 1..Len(ret) :
        i # j => ret[i].doc.source # ret[j].doc.source

C1_Witness ==
    /\ search.outcome = "ok"
    /\ Len(ret) >= 2
    /\ \E i \in 1..Len(search.candidates), j \in 1..Len(search.candidates) :
          i # j /\ search.candidates[i].doc.source = search.candidates[j].doc.source

\* C2: for a top_k >= 0 that the caller supplies, the returned list is
\* ascending by score and no longer than top_k.
C2_SortedAndBounded ==
    (search.outcome = "ok" /\ search.top_k # None)
        => (Ascending /\ Len(ret) <= search.top_k)

\* C3: without a scorer every result's score is its vector distance, and the
\* results are the surviving candidates in the order in which the Vector
\* Index returned them, cut to the bound.
C3_RawOrder ==
    (search.outcome = "ok" /\ ~search.llm_available)
        => /\ Len(ret) = Min(Bound, Cardinality(Firsts))
           /\ \A n \in 1..Len(ret) : ret[n] = Survivor(n)
           /\ \A n \in 1..Len(ret) : ret[n].score = DistanceOf(n)

C3_Witness ==
    /\ search.outcome = "ok"
    /\ ~search.llm_available
    /\ Len(ret) >= 2
    /\ Cardinality(Firsts) > Len(ret) \/ ret[1].score = ret[2].score
    /\ Cardinality(Firsts) < Len(search.candidates)

\* C4: after a forced run over a store that held entries, the store holds
\* exactly the chunks of that run, and a search that follows returns only
\* results whose source is a document of that run.
C4_ForceReplaces ==
    (run.outcome = "done" /\ run.force_reindex /\ run.had_entries)
        => /\ store = run.chunks
           /\ run.count = Len(store)
           /\ \A i \in 1..Len(ret) :
                 \E c \in 1..Len(run.chunks) : run.chunks[c].source = ret[i].doc.source

C4_Witness ==
    /\ run.outcome = "done" /\ run.force_reindex /\ run.had_entries
    /\ search.outcome = "ok"
    /\ ret # <<>>

\* C5: a run without force that writes its chunks leaves the entries it finds
\* in place and appends its chunks behind them, so each further run over the
\* same files adds one more copy of each chunk.
C5_Appends ==
    [][(store' # store /\ run'.outcome = "done" /\ ~run'.force_reindex)
          => /\ store' = store \o run'.chunks
             /\ run'.count = Len(run'.chunks)
             /\ run'.chunks # <<>>]_vars

C5_Witness ==
    /\ run.outcome = "done" /\ ~run.force_reindex /\ run.had_entries
    /\ Len(store) = 2 * Len(run.chunks)
    /\ \A c \in 1..Len(run.chunks) :
          store[c] = run.chunks[c] /\ store[Len(run.chunks) + c] = run.chunks[c]

\* The decimal value of the digits at the positions i..j of the response.
ValueAt(i, j) ==
    LET val[k \in (i - 1)..j] ==
            IF k = i - 1 THEN 0 ELSE 10 * val[k - 1] + DigitValue(scoring.response[k])
    IN  val[j]

\* C6: the rating lies in 1..10; it is the first integer literal of the
\* response, raised to 1 or lowered to 10 when it lies outside, and 5 when
\* the response holds no integer.
C6_Rating ==
    scoring.llm_score # None
        => LET r == scoring.response
               n == scoring.llm_score
           IN  /\ n \in 1..10
               /\ (\A k \in 1..Len(r) : r[k] \notin Digits) => n = 5
               /\ \A i \in 1..Len(r), j \in 1..Len(r) :
                     ( /\ i <= j
                       /\ \A k \in 1..(i - 1) : r[k] \notin Digits
                       /\ \A k \in i..j : r[k] \in Digits
                       /\ (j = Len(r) \/ r[j + 1] \notin Digits) )
                     => n = (IF ValueAt(i, j) < 1 THEN 1
                             ELSE IF ValueAt(i, j) > 10 THEN 10 ELSE ValueAt(i, j))

C6_Witness ==
    /\ scoring.llm_score = 10
    /\ Len(scoring.response) = 3
    /\ scoring.response[1] \notin Digits
    /\ scoring.response[2] \in Digits
    /\ scoring.response[3] \in Digits

\* C7: a result the scorer has rated carries the score
\* 0.7 * (11 - rating) / 10 + 0.3 * distance; of two rated results at the
\* same distance the one with the higher rating has the lower score and
\* comes first.
C7_Blend ==
    search.outcome = "ok"
        => /\ \A i \in 1..Len(ret) :
                 Scored(i) =>
                    10 * ret[i].score
                        = 700 * (11 - LlmScore(ResponseOf(i))) + 3 * DistanceOf(i)
           /\ \A i \in 1..Len(ret), j \in 1..Len(ret) :
                 ( /\ Scored(i) /\ Scored(j)
                   /\ DistanceOf(i) = DistanceOf(j)
                   /\ LlmScore(ResponseOf(i)) > LlmScore(ResponseOf(j)) )
                 => (ret[i].score < ret[j].score /\ i < j)

C7_Witness ==
    /\ search.outcome = "ok"
    /\ Len(ret) = 2
    /\ Scored(1) /\ Scored(2)
    /\ DistanceOf(1) = DistanceOf(2)
    /\ LlmScore(ResponseOf(1)) = 8
    /\ LlmScore(ResponseOf(2)) = 2
    /\ search.candidates[1].doc.source = ret[2].doc.source

\* C8: when the scorer fails on some candidates the search still returns its
\* list: a candidate on which it failed keeps its vector distance as score,
\* every other candidate has its blended score, and every surviving
\* candidate is in the list up to the bound.
C8_ScorerFailure ==
    (search.outcome = "ok" /\ search.llm_available)
        => /\ \A i \in 1..Len(ret) :
                 ret[i].score =
                    IF ResponseOf(i) = ScorerFails THEN DistanceOf(i)
                    ELSE 70 * (11 - LlmScore(ResponseOf(i))) + (3 * DistanceOf(i)) \div 10
           /\ Len(ret) = Min(Bound, Cardinality(Firsts))
           /\ \A i \in 1..Len(ret) : \E n \in 1..Cardinality(Firsts) :
                 ret[i].doc = Survivor(n).doc
           /\ Ascending

C8_Witness ==
    /\ search.outcome = "ok"
    /\ search.llm_available
    /\ Len(ret) = 2
    /\ ResponseOf(1) # ScorerFails
    /\ ResponseOf(2) = ScorerFails

\* C9: a search whose query of the Vector Index fails returns the empty list
\* and leaves the entries of the store as they were.
C9_QueryError ==
    [][(search.outcome = "none" /\ search'.outcome = "query_error")
          => (ret' = <<>> /\ store' = store /\ index_dir' = index_dir)]_vars

C9_Witness ==
    /\ search.outcome = "query_error"
    /\ Len(store) >= 2

\* C10, as stated: what search returns when no index is present differs from
\* what it returns when the query has failed.
C10_ReturnsDiffer ==
    \A x \in returned, y \in returned : x[1] # y[1] => x[2] # y[2]

\* C10, amended: search returns the empty list in both cases; they differ in
\* the engine's vectorstore, which is None exactly when no index is present,
\* and in the message printed.
C10_HandleTellsApart ==
    /\ search.outcome = "no_index"
          => (ret = <<>> /\ ~search.vectorstore /\ search.console = "No index found")
    /\ search.outcome = "query_error"
          => (ret = <<>> /\ search.vectorstore /\ search.console = "Search error")
    /\ search.outcome = "ok" => search.vectorstore
    /\ \A x \in returned : x[2] = <<>>

C10_Witness ==
    /\ <<"no_index", <<>>>> \in returned
    /\ <<"query_error", <<>>>> \in returned
    /\ search.outcome = "query_error"

\* Some ancestor directory of the path, at any depth, bears an excluded name.
Excluded(p) == \E i \in 1..Len(p.dirs) : p.dirs[i] \in skip_dirs

\* The source paths of a sequence of chunks.
SourcesOf(chunks) == {chunks[i].source : i \in 1..Len(chunks)}

\* C11: a file below a directory with an excluded name, at any depth, is never
\* loaded, with an allow-listed extension or without extension: no chunk of a
\* run, no entry of the store and no result of a search has such a file as
\* its source.
C11_ExcludedNeverIndexed ==
    /\ \A p \in SourcesOf(run.chunks) : ~Excluded(p)
    /\ \A p \in SourcesOf(store) : ~Excluded(p)
    /\ \A i \in 1..Len(ret) : ~Excluded(ret[i].doc.source)

C11_Witness ==
    /\ {FileA, FileG, FileN, FileV} \subseteq files
    /\ run.outcome = "done"
    /\ SourcesOf(store) = {FileA}
    /\ search.outcome = "ok"
    /\ Len(ret) = 1

\* C12, as stated: indexing over a notes directory that does not exist ends
\* in error, an outcome other than that of a run that loads no document.
C12_MissingDirFails ==
    run.missing => run.outcome \in {"failed", "declined"}

\* C12, amended: over a notes directory that does not exist, do_index with
\* the creation declined prints the error and starts no run; index itself
\* loads no document and returns 0, the outcome of any run that loads no
\* document, and leaves the entries of the store as they are.
C12_MissingDirReturnsZero ==
    /\ run.outcome = "declined" => run.missing
    /\ run.missing
          => /\ run.outcome \in {"declined", "zero"}
             /\ run.count = 0
             /\ run.chunks = <<>>
             /\ run.outcome = "zero" => (run.had_entries <=> store # <<>>)

C12_Witness ==
    /\ run.missing
    /\ run.outcome = "zero"
    /\ ~notes_exists
    /\ run.had_entries
    /\ store # <<>>

\* C13: a file whose load fails does not abort the run: it contributes no
\* document, and every other eligible file, before or behind it in the
\* enumeration, contributes its chunks.
C13_LoadFailureIsolated ==
    [][\A bad \in SUBSET (files \cap Paths), embedOk \in BOOLEAN :
          (run' # NoRun /\ Index(run'.force_reindex, bad, embedOk))
             => \A p \in files :
                   /\ (p \in bad \/ _should_skip_path(p)) => p \notin SourcesOf(run'.chunks)
                   /\ (p \notin bad /\ ~_should_skip_path(p))
                         => /\ p \in SourcesOf(run'.chunks)
                            /\ embedOk => p \in SourcesOf(store')]_vars

C13_Witness ==
    /\ {FileA, FileB} \subseteq files
    /\ run.outcome = "done"
    /\ ~run.had_entries
    /\ SourcesOf(store) = {FileA}

\* C14: a run that loads no document returns 0 and leaves the entries of the
\* store exactly as they were, also under force_reindex over a store that
\* holds entries.
C14_ZeroDocumentsKeepStore ==
    [][\A bad \in SUBSET (files \cap Paths), embedOk \in BOOLEAN :
          (/\ run' # NoRun
           /\ _load_documents(notes_exists, files, bad) = <<>>
           /\ Index(run'.force_reindex, bad, embedOk))
             => /\ store' = store
                /\ run'.outcome = "zero"
                /\ run'.count = 0
                /\ run'.chunks = <<>>]_vars

C14_Witness ==
    /\ run.outcome = "zero"
    /\ run.force_reindex
    /\ run.had_entries
    /\ ~run.missing
    /\ store # <<>>

\* C15: a run into an empty store over a notes directory with exactly one
\* eligible file, whose text with its header fits one chunk, returns 1 and
\* leaves exactly that chunk in the store; a search without scorer that
\* follows returns exactly one result, whose source is that file.
C15_SingleSmallFile ==
    [][/\ \A bad \in SUBSET (files \cap Paths), p \in files :
             (/\ store = <<>>
              /\ run' # NoRun
              /\ p \notin bad
              /\ HeaderLen(p) + ContentLen(p) <= ChunkSize
              /\ EligibleFiles(files) = <<p>>
              /\ Index(run'.force_reindex, bad, TRUE))
                => /\ run'.outcome = "done"
                   /\ run'.count = 1
                   /\ store' = <<[source |-> p, chunk |-> 1]>>
       /\ \A p \in IndexPaths :
             (/\ store = <<[source |-> p, chunk |-> 1]>>
              /\ run.count = 1
              /\ Idle
              /\ search'.outcome # "none"
              /\ ~search'.llm_available)
                => /\ search'.outcome = "ok"
                   /\ Len(ret') = 1
                   /\ ret'[1].doc.source = p]_vars

C15_Witness ==
    /\ files = {FileA, FileG}
    /\ run.outcome = "done" /\ run.count = 1 /\ ~run.had_entries
    /\ store = <<[source |-> FileA, chunk |-> 1]>>
    /\ search.outcome = "ok" /\ ~search.llm_available
    /\ Len(ret) = 1 /\ ret[1].doc.source = FileA

\* C16, as stated: for every top_k from 1 on, the number of candidates
\* requested when the scorer is available is at least top_k.
C16_PoolNotNarrower ==
    (pool.initial_k # None /\ pool.llm_available) => pool.initial_k >= pool.top_k

\* C17: a forced run that loads a document removes every entry the store
\* held before it embeds; when the embedding then fails the run ends in
\* error and the store holds no entry.
C17_ForcedFailureEmptiesStore ==
    (run.outcome = "failed" /\ run.force_reindex)
        => /\ store = <<>>
           /\ run.count = 0
           /\ run.chunks # <<>>

C17_Witness ==
    /\ run.outcome = "failed" /\ run.force_reindex /\ run.had_entries
    /\ store = <<>>
    /\ index_dir = "nonempty"

====
